---- MODULE Spec2Model ----
(***************************************************************************)
(* Model of generate_dashboard.py: the scan of an account's repositories,   *)
(* the per-repository selection of the latest run of every workflow, the    *)
(* workflow filter, the classification by workflow name, the sort of the    *)
(* collected records and their grouping into the sections of the page.      *)
(*                                                                          *)
(* Strings are sequences of one-character strings, so that lower(), strip(),*)
(* split(',') and the substring test `in` are computed as Python computes   *)
(* them.  None is the string "None".  Fields that are only copied into the  *)
(* page (urls, branch, job timestamps) are left out.                        *)
(***************************************************************************)
EXTENDS Integers, Sequences, FiniteSets

VARIABLES
    workflow_filter,    \* the WORKFLOW_FILTER text, lowercased (line 12)
    workflow_filters,   \* the parsed filter terms (line 13)
    repos,              \* the repositories the API has delivered so far
    dashboard_data,     \* the accumulated records (line 30)
    errors,             \* full names of the repositories whose error was printed
    html,               \* the emitted sections, in page order
    pc                  \* "scan" (loop of line 32), "done" (page written)

vars == <<workflow_filter, workflow_filters, repos, dashboard_data, errors, html, pc>>

-----------------------------------------------------------------------------
(* Bounds *)

\* repositories the API delivers in one scan
MaxRepos == 2
\* workflow runs delivered in one scan, over all its repositories
MaxRuns == 3
\* jobs delivered in one scan, over all its runs
MaxJobs == 4
\* fragments the workflow names of one scan are put together from
MaxFrags == 3

-----------------------------------------------------------------------------
(* Python strings *)

None == "None"

UpperCase == <<"A","B","C","D","E","F","G","H","I","J","K","L","M",
               "N","O","P","Q","R","S","T","U","V","W","X","Y","Z">>
LowerCase == <<"a","b","c","d","e","f","g","h","i","j","k","l","m",
               "n","o","p","q","r","s","t","u","v","w","x","y","z">>

\* The characters used, in code point order.
Ascii == <<" ", ",", "-", "/", "0","1","2","3","4","5","6","7","8","9">>
         \o UpperCase \o <<"_">> \o LowerCase

Ord(c) == CHOOSE i \in 1..Len(Ascii) : Ascii[i] = c

LowerChar(c) ==
    IF \E i \in 1..Len(UpperCase) : UpperCase[i] = c
    THEN LowerCase[CHOOSE i \in 1..Len(UpperCase) : UpperCase[i] = c]
    ELSE c

\* str.lower()
Lower(s) == [i \in 1..Len(s) |-> LowerChar(s[i])]

\* t in s
Contains(s, t) ==
    \E i \in 0..(Len(s) - Len(t)) : SubSeq(s, i + 1, i + Len(t)) = t

\* str.strip()
Strip(s) ==
    IF \A i \in 1..Len(s) : s[i] = " " THEN <<>>
    ELSE LET first == CHOOSE i \in 1..Len(s) :
                          s[i] # " " /\ \A j \in 1..(i - 1) : s[j] = " "
             last  == CHOOSE i \in 1..Len(s) :
                          s[i] # " " /\ \A j \in (i + 1)..Len(s) : s[j] = " "
         IN  SubSeq(s, first, last)

\* str.split(',')
RECURSIVE Split(_)
Split(s) ==
    IF \A i \in 1..Len(s) : s[i] # "," THEN <<s>>
    ELSE LET c == CHOOSE i \in 1..Len(s) :
                      s[i] = "," /\ \A j \in 1..(i - 1) : s[j] # ","
         IN  <<SubSeq(s, 1, c - 1)>> \o Split(SubSeq(s, c + 1, Len(s)))

\* [f.strip() for f in workflow_filter.split(',') if f.strip()]
ParseFilters(text) ==
    LET parts == Split(text)
        kept  == SelectSeq(parts, LAMBDA f : Strip(f) # <<>>)
    IN  [i \in 1..Len(kept) |-> Strip(kept[i])]

\* os.environ.get('WORKFLOW_FILTER', ...).lower()
ReadFilter(env) == Lower(env)

-----------------------------------------------------------------------------
(* Ordering: Python compares the sort keys as tuples, strings by code point *)

Codes(s) == [i \in 1..Len(s) |-> Ord(s[i])]

\* a < b for sequences of integers, lexicographically
LexLess(a, b) ==
    \E i \in 1..(Len(a) + 1) :
        /\ i <= Len(b)
        /\ \A j \in 1..(i - 1) : j <= Len(a) /\ a[j] = b[j]
        /\ (i = Len(a) + 1 \/ a[i] < b[i])

\* Position at which a stable sort puts x into the sorted sequence s: after
\* every element that is not greater.
RECURSIVE InsertByKey(_, _, _)
InsertByKey(x, kx, s) ==
    IF s = <<>> THEN <<x>>
    ELSE IF LexLess(kx, Head(s).key)
         THEN <<x>> \o s
         ELSE <<Head(s)>> \o InsertByKey(x, kx, Tail(s))

\* list.sort(key=...) / sorted(..., key=...): stable, ascending.  The
\* elements are [key |-> sequence of integers, val |-> element].
RECURSIVE StableSort(_)
StableSort(s) ==
    IF s = <<>> THEN <<>>
    ELSE LET front == StableSort(SubSeq(s, 1, Len(s) - 1))
             x     == s[Len(s)]
         IN  IF front = <<>> \/ ~LexLess(x.key, front[Len(front)].key)
             THEN Append(front, x)
             ELSE InsertByKey(x, x.key, front)

-----------------------------------------------------------------------------
(* The loop body of lines 54-113 *)

Str_sync_odoo == <<"s","y","n","c","-","o","d","o","o">>
Str_3rd       == <<"3","r","d">>
Str_third     == <<"t","h","i","r","d">>
Str_sync_3rd  == <<"s","y","n","c","-","3","r","d">>

TypeOdoo  == "Odoo"
TypeThird == "3rd Party"
TypeOther == "Other"

\* FilterAccepts with all() in place of any()
FilterAccepts_all(workflow_name_lower, filters) ==
    IF filters # <<>>
    THEN \A i \in 1..Len(filters) : Contains(workflow_name_lower, filters[i])
    ELSE TRUE

\* FilterAccepts testing the first term only
FilterAccepts_first(workflow_name_lower, filters) ==
    IF filters # <<>>
    THEN Contains(workflow_name_lower, filters[1])
    ELSE TRUE

\* lines 58-60: TRUE iff the run is not skipped by the filter
FilterAccepts(workflow_name_lower, filters) ==
    IF filters # <<>>
    THEN \E i \in 1..Len(filters) : Contains(workflow_name_lower, filters[i])
    ELSE TRUE

\* workflow_type without the test for 'third'
workflow_type_nothird(workflow_name_lower) ==
    IF Contains(workflow_name_lower, Str_sync_odoo) THEN TypeOdoo
    ELSE IF \/ Contains(workflow_name_lower, Str_3rd)
            \/ Contains(workflow_name_lower, Str_sync_3rd)
         THEN TypeThird
         ELSE TypeOther

\* lines 70-75
workflow_type(workflow_name_lower) ==
    IF Contains(workflow_name_lower, Str_sync_odoo) THEN TypeOdoo
    ELSE IF \/ Contains(workflow_name_lower, Str_3rd)
            \/ Contains(workflow_name_lower, Str_third)
            \/ Contains(workflow_name_lower, Str_sync_3rd)
         THEN TypeThird
         ELSE TypeOther

\* lines 79-90
job_details(jobs) ==
    [i \in 1..Len(jobs) |->
        [name |-> jobs[i].name, status |-> jobs[i].status,
         conclusion |-> jobs[i].conclusion]]

\* lines 92-104
repo_data(repo, run) ==
    [name          |-> repo.full_name,
     workflow_name |-> run.name,
     workflow_type |-> workflow_type(Lower(run.name)),
     status        |-> run.status,
     conclusion    |-> run.conclusion,
     updated_at    |-> run.updated_at,
     jobs          |-> job_details(run.jobs),
     job_count     |-> Len(job_details(run.jobs))]

\* lines 54-113 from run i on: the records appended, and whether an exception
\* left the loop.  run.broken = "name": reading the run raises (line 55);
\* run.broken = "jobs": run.jobs() raises (line 78).
RECURSIVE RunLoop(_, _, _, _, _)
RunLoop(repo, filters, i, processed_workflows, data) ==
    IF i > Len(repo.all_runs) THEN [data |-> data, raised |-> FALSE]
    ELSE LET run == repo.all_runs[i] IN
         IF run.broken = "name" THEN [data |-> data, raised |-> TRUE]
         ELSE IF ~FilterAccepts(Lower(run.name), filters)
              THEN RunLoop(repo, filters, i + 1, processed_workflows, data)
         ELSE IF run.name \in processed_workflows
              THEN RunLoop(repo, filters, i + 1, processed_workflows, data)
         ELSE IF run.broken = "jobs" THEN [data |-> data, raised |-> TRUE]
         ELSE RunLoop(repo, filters, i + 1,
                      processed_workflows \cup {run.name},
                      Append(data, repo_data(repo, run)))

\* ProcessOne with processed_workflows kept across the repositories
ProcessOne_shared(repo, filters, data) ==
    IF repo.archived THEN [data |-> data, raised |-> FALSE]
    ELSE IF repo.api_error = "workflows" THEN [data |-> data, raised |-> TRUE]
    ELSE IF repo.workflows_totalCount = 0 THEN [data |-> data, raised |-> FALSE]
    ELSE IF repo.api_error = "runs" THEN [data |-> data, raised |-> TRUE]
    ELSE IF Len(repo.all_runs) = 0 THEN [data |-> data, raised |-> FALSE]
    ELSE RunLoop(repo, filters, 1,
                 {data[i].workflow_name : i \in 1..Len(data)}, data)

\* ProcessOne testing repo.archived after the retrievals
ProcessOne_late(repo, filters, data) ==
    IF repo.api_error = "workflows" THEN [data |-> data, raised |-> TRUE]
    ELSE IF repo.workflows_totalCount = 0 THEN [data |-> data, raised |-> FALSE]
    ELSE IF repo.api_error = "runs" THEN [data |-> data, raised |-> TRUE]
    ELSE IF Len(repo.all_runs) = 0 THEN [data |-> data, raised |-> FALSE]
    ELSE IF repo.archived THEN [data |-> data, raised |-> FALSE]
    ELSE RunLoop(repo, filters, 1, {}, data)

\* lines 33-117: one iteration of the loop over the repositories.
\* repo.api_error = "workflows" / "runs": the retrieval of line 39-41 / 45-47
\* raises.
ProcessOne(repo, filters, data) ==
    IF repo.archived THEN [data |-> data, raised |-> FALSE]
    ELSE IF repo.api_error = "workflows" THEN [data |-> data, raised |-> TRUE]
    ELSE IF repo.workflows_totalCount = 0 THEN [data |-> data, raised |-> FALSE]
    ELSE IF repo.api_error = "runs" THEN [data |-> data, raised |-> TRUE]
    ELSE IF Len(repo.all_runs) = 0 THEN [data |-> data, raised |-> FALSE]
    ELSE RunLoop(repo, filters, 1, {}, data)

-----------------------------------------------------------------------------
(* Sorting and grouping, lines 119-132 and 415-447 *)

\* status_priority.get(s, 99), line 121 and 130
status_priority(s) ==
    CASE s = "failure"     -> 0
      [] s = "cancelled"   -> 1
      [] s = "in_progress" -> 2
      [] s = "success"     -> 3
      [] s = "completed"   -> 4
      [] OTHER             -> 99

\* workflow_type_priority.get(t, 99), lines 122-126
workflow_type_priority(t) ==
    CASE t = TypeOdoo  -> 0
      [] t = TypeThird -> 1
      [] t = TypeOther -> 2
      [] OTHER         -> 99

\* a or b
PyOr(a, b) == IF a = None THEN b ELSE a

\* SortKey without the repository name
SortKey_noname(x) ==
    <<workflow_type_priority(x.workflow_type),
      status_priority(PyOr(x.conclusion, x.status))>>

\* the key of lines 128-132
SortKey(x) ==
    <<workflow_type_priority(x.workflow_type),
      status_priority(PyOr(x.conclusion, x.status))>> \o Codes(x.name)

Vals(s) == [i \in 1..Len(s) |-> s[i].val]

\* dashboard_data.sort(key=...), lines 128-132
SortData(data) ==
    Vals(StableSort([i \in 1..Len(data) |-> [key |-> SortKey(data[i]), val |-> data[i]]]))

\* keys of workflow_groups in insertion order, lines 416-421
RECURSIVE GroupKeys(_)
GroupKeys(data) ==
    IF data = <<>> THEN <<>>
    ELSE LET front == GroupKeys(SubSeq(data, 1, Len(data) - 1))
             t     == data[Len(data)].workflow_type
         IN  IF \E i \in 1..Len(front) : front[i] = t THEN front
             ELSE Append(front, t)

\* sorted(workflow_groups.keys(), key=...), line 424
SortedKeys(data) ==
    LET keys == GroupKeys(data)
    IN  Vals(StableSort([i \in 1..Len(keys) |->
                 [key |-> <<workflow_type_priority(keys[i])>>, val |-> keys[i]]]))

\* Row counting every job that is not completed as in progress
Row_pending(r) ==
    [name             |-> r.name,
     workflow_name    |-> r.workflow_name,
     workflow_type    |-> r.workflow_type,
     status           |-> r.status,
     conclusion       |-> r.conclusion,
     shown            |-> PyOr(r.conclusion, r.status),
     updated_at       |-> r.updated_at,
     jobs             |-> r.jobs,
     job_count        |-> r.job_count,
     success_jobs     |-> Len(SelectSeq(r.jobs, LAMBDA j : j.conclusion = "success")),
     failure_jobs     |-> Len(SelectSeq(r.jobs, LAMBDA j : j.conclusion = "failure")),
     in_progress_jobs |-> Len(SelectSeq(r.jobs, LAMBDA j : j.status # "completed"))]

\* one row of the page, lines 432-447
Row(r) ==
    [name             |-> r.name,
     workflow_name    |-> r.workflow_name,
     workflow_type    |-> r.workflow_type,
     status           |-> r.status,
     conclusion       |-> r.conclusion,
     shown            |-> PyOr(r.conclusion, r.status),
     updated_at       |-> r.updated_at,
     jobs             |-> r.jobs,
     job_count        |-> r.job_count,
     success_jobs     |-> Len(SelectSeq(r.jobs, LAMBDA j : j.conclusion = "success")),
     failure_jobs     |-> Len(SelectSeq(r.jobs, LAMBDA j : j.conclusion = "failure")),
     in_progress_jobs |-> Len(SelectSeq(r.jobs, LAMBDA j : j.status = "in_progress"))]

\* the sections of the page, lines 415-516
Sections(data) ==
    LET keys == SortedKeys(data)
    IN  [k \in 1..Len(keys) |->
            LET repos_in_group ==
                    SelectSeq(data, LAMBDA r : r.workflow_type = keys[k])
            IN  [workflow_type |-> keys[k],
                 rows |-> [i \in 1..Len(repos_in_group) |-> Row(repos_in_group[i])]]]

-----------------------------------------------------------------------------
(* The program *)

\* lines 12-30: the state before the first repository is read
InitWith(envs) ==
    /\ workflow_filter \in {ReadFilter(e) : e \in envs}
    /\ workflow_filters = ParseFilters(workflow_filter)
    /\ repos = <<>>
    /\ dashboard_data = <<>>
    /\ errors = <<>>
    /\ html = <<>>
    /\ pc = "scan"

\* ProcessRepo dropping the accumulated records when the body raises
ProcessRepo_discard(repo) ==
    /\ pc = "scan"
    /\ LET result == ProcessOne(repo, workflow_filters, dashboard_data)
       IN  /\ dashboard_data' = IF result.raised THEN <<>> ELSE result.data
           /\ errors' = IF result.raised THEN Append(errors, repo.full_name)
                        ELSE errors
    /\ repos' = Append(repos, repo)
    /\ UNCHANGED <<workflow_filter, workflow_filters, html, pc>>

\* lines 32-117: the API delivers the next repository and the loop body runs
ProcessRepo(repo) ==
    /\ pc = "scan"
    /\ LET result == ProcessOne(repo, workflow_filters, dashboard_data)
       IN  /\ dashboard_data' = result.data
           /\ errors' = IF result.raised THEN Append(errors, repo.full_name)
                        ELSE errors
    /\ repos' = Append(repos, repo)
    /\ UNCHANGED <<workflow_filter, workflow_filters, html, pc>>

\* lines 119-529: the repositories are exhausted; sort, group, write the page
Render ==
    /\ pc = "scan"
    /\ dashboard_data' = SortData(dashboard_data)
    /\ html' = Sections(dashboard_data')
    /\ pc' = "done"
    /\ UNCHANGED <<workflow_filter, workflow_filters, repos, errors>>

-----------------------------------------------------------------------------
(* What the API delivers: bounded sets of repositories, runs and jobs *)

SeqsUpTo(S, n) == UNION {[1..k -> S] : k \in 0..n}

RECURSIVE CountRuns(_)
CountRuns(rs) ==
    IF rs = <<>> THEN 0 ELSE Len(Head(rs).all_runs) + CountRuns(Tail(rs))

RunsSoFar == CountRuns(repos)

RECURSIVE Flatten(_)
Flatten(ss) == IF ss = <<>> THEN <<>> ELSE Head(ss) \o Flatten(Tail(ss))

\* A run as the API returns it.  Runs come newest first: the run at position
\* i of n was updated at time n - i + 1.
MkRuns(shapes) ==
    [i \in 1..Len(shapes) |->
        [name       |-> shapes[i].name,
         status     |-> shapes[i].status,
         conclusion |-> shapes[i].conclusion,
         broken     |-> shapes[i].broken,
         jobs       |-> shapes[i].jobs,
         updated_at |-> Len(shapes) - i + 1]]

MkRepo(full_name, archived, count, api_error, shapes) ==
    [full_name            |-> full_name,
     archived             |-> archived,
     workflows_totalCount |-> count,
     api_error            |-> api_error,
     all_runs             |-> MkRuns(shapes)]

Shape(name, status, conclusion, broken, jobs) ==
    [name |-> name, status |-> status, conclusion |-> conclusion,
     broken |-> broken, jobs |-> jobs]

UsedNames == {repos[i].full_name : i \in 1..Len(repos)}

\* names of the i-th repository in enumeration order
NextName == <<LowerCase[Len(repos) + 1]>>

N_sync_odoo == Str_sync_odoo
N_Sync_Odoo == <<"S","y","n","c","-","O","d","o","o">>
N_sync_3rd  == <<"s","y","n","c","-","3","r","d","-","p","a","r","t","y">>
N_lint      == <<"l","i","n","t">>

Env_empty   == <<>>
Env_default == N_sync_odoo \o <<",">> \o N_sync_3rd
Env_lint    == <<" ","L","I","N","T"," ",",">>

\* Selection: several runs per repository, names that repeat inside a
\* repository and across repositories, every run completed successfully.
SelectShapes ==
    {Shape(n, "completed", "success", "no", <<>>) :
        n \in {N_sync_odoo, N_Sync_Odoo, N_sync_3rd, N_lint}}

SelectRepos ==
    {MkRepo(NextName, FALSE, 1, "none", rs) :
        rs \in SeqsUpTo(SelectShapes, MaxRuns - RunsSoFar)}

\* Failures: reading a run or its jobs raises in the middle of a run list, or
\* the retrieval of the workflows or of the runs raises (no run is delivered).
FailShapes ==
    {Shape(n, "completed", "success", b, <<>>) :
        n \in {N_sync_odoo, N_lint}, b \in {"no", "name", "jobs"}}

FailRepos ==
    {MkRepo(NextName, FALSE, 1, "none", rs) :
        rs \in SeqsUpTo(FailShapes, MaxRuns - RunsSoFar)}
    \cup {MkRepo(NextName, FALSE, 1, e, <<>>) : e \in {"workflows", "runs"}}

\* Repository conditions: archived or not, with or without workflows, with a
\* working or a failing API, with or without runs.
RepoShapes == {Shape(N_lint, "completed", "success", "no", <<>>)}

RepoRepos ==
    {MkRepo(NextName, a, c, e, rs) :
        a \in BOOLEAN, c \in {0, 1}, e \in {"none", "workflows", "runs"},
        rs \in SeqsUpTo(RepoShapes, MaxRuns - RunsSoFar)}

\* Sorting: one workflow name per category, failing and passing runs,
\* repositories enumerated in any order of their names.
SortShapes ==
    {Shape(n, "completed", c, "no", <<>>) :
        n \in {N_sync_odoo, N_sync_3rd, N_lint}, c \in {"failure", "success"}}

FreeNames == {<<LowerCase[i]>> : i \in 1..MaxRepos} \ UsedNames

SortRepos ==
    {MkRepo(n, FALSE, 1, "none", rs) :
        n \in FreeNames, rs \in SeqsUpTo(SortShapes, MaxRuns - RunsSoFar)}

\* Statuses: every kind of run state, status with its conclusion.
RunStates ==
    {<<"completed", "failure">>, <<"completed", "cancelled">>,
     <<"in_progress", None>>, <<"completed", "success">>,
     <<"completed", "skipped">>, <<"queued", None>>, <<"completed", None>>}

StatusShapes == {Shape(N_lint, st[1], st[2], "no", <<>>) : st \in RunStates}

StatusRepos ==
    {MkRepo(NextName, FALSE, 1, "none", rs) :
        rs \in SeqsUpTo(StatusShapes, 1) \ {<<>>}}

\* Jobs: one run per repository, with jobs in every kind of state.
JobStates ==
    {<<"completed", "success">>, <<"completed", "failure">>,
     <<"in_progress", None>>, <<"queued", None>>, <<"completed", "cancelled">>}

Job(st) == [name |-> <<"j">>, status |-> st[1], conclusion |-> st[2]]

RECURSIVE CountJobs(_)
CountJobs(rs) ==
    IF rs = <<>> THEN 0
    ELSE Len(Flatten([i \in 1..Len(Head(rs).all_runs) |-> Head(rs).all_runs[i].jobs]))
         + CountJobs(Tail(rs))

JobsRepos ==
    {MkRepo(NextName, FALSE, 1, "none",
            <<Shape(N_lint, "completed", "success", "no",
                    [i \in 1..Len(js) |-> Job(js[i])])>>) :
        js \in SeqsUpTo(JobStates, MaxJobs - CountJobs(repos))}

\* Workflow names: one run per repository, its name put together from
\* fragments.
Fragments ==
    {<<"S","y","n","c","-">>, <<"O","d","o","o">>, <<"o","d","o","o">>,
     <<"3","r","d">>, <<"T","h","i","r","d">>, N_lint}

RECURSIVE CountFrags(_)
CountFrags(rs) ==
    IF rs = <<>> THEN 0 ELSE Head(rs).all_runs[1].frags + CountFrags(Tail(rs))

NamedRun(fs) ==
    [name |-> Flatten(fs), status |-> "completed", conclusion |-> "success",
     broken |-> "no", jobs |-> <<>>, updated_at |-> 1, frags |-> Len(fs)]

NameRepos ==
    {[full_name |-> NextName, archived |-> FALSE, workflows_totalCount |-> 1,
      api_error |-> "none", all_runs |-> <<NamedRun(fs)>>] :
        fs \in SeqsUpTo(Fragments, MaxFrags - CountFrags(repos)) \ {<<>>}}

Env_odoo   == <<"o","d","o","o">>
Env_spaced == <<" ","O","d","o","o"," ",","," ",",","L","I","N","T">>
Env_third  == <<"3","R","D",",","t","h","i","r","d">>

-----------------------------------------------------------------------------
(* Specifications: the program on each of the families of inputs *)

\* the API delivers one more repository, line 32
Deliver(delivered) ==
    /\ Len(repos) < MaxRepos
    /\ \E repo \in delivered : ProcessRepo(repo)

Init == InitWith({Env_empty, Env_default, Env_lint})
Next == Deliver(SelectRepos) \/ Render
Spec == Init /\ [][Next]_vars

InitFail == InitWith({Env_default})
NextFail == Deliver(FailRepos) \/ Render
SpecFail == InitFail /\ [][NextFail]_vars

InitRepo == InitWith({Env_empty})
NextRepo == Deliver(RepoRepos) \/ Render
SpecRepo == InitRepo /\ [][NextRepo]_vars

InitSort == InitWith({Env_empty})
NextSort == Deliver(SortRepos) \/ Render
SpecSort == InitSort /\ [][NextSort]_vars

InitStatus == InitWith({Env_empty})
NextStatus == Deliver(StatusRepos) \/ Render
SpecStatus == InitStatus /\ [][NextStatus]_vars

InitJobs == InitWith({Env_empty})
NextJobs == Deliver(JobsRepos) \/ Render
SpecJobs == InitJobs /\ [][NextJobs]_vars

InitNames == InitWith({Env_empty, Env_default, Env_odoo, Env_spaced, Env_third})
NextNames == Deliver(NameRepos) \/ Render
SpecNames == InitNames /\ [][NextNames]_vars

-----------------------------------------------------------------------------
(* Vocabulary of the properties *)

\* The records of the output: the rows of the page once it is written, the
\* accumulated records before.
Rows == Flatten([k \in 1..Len(html) |-> html[k].rows])
Output == IF pc = "done" THEN Rows ELSE dashboard_data

RecsOf(full_name, data) == SelectSeq(data, LAMBDA x : x.name = full_name)

Errored(full_name) == \E e \in 1..Len(errors) : errors[e] = full_name

\* the repository was read to the end of its run list
Scanned(r) ==
    ~r.archived /\ r.workflows_totalCount > 0 /\ ~Errored(r.full_name)

\* the filter of the specification, section 4.2
Accepted(n, T) ==
    T = <<>> \/ \E t \in 1..Len(T) : Contains(Lower(n), Lower(T[t]))

\* position of the first run of the list that bears the name of run i
FirstOf(runs, i) ==
    CHOOSE f \in 1..i :
        runs[f].name = runs[i].name /\ \A g \in 1..(f - 1) : runs[g].name # runs[i].name

-----------------------------------------------------------------------------
\* C1: for every scanned repository the output holds exactly one record for
\* each distinct workflow name among its filter-accepted runs, that record is
\* the first (most recently updated) run of that name, and the output holds
\* no other record of the repository; names are tracked per repository.
C1_LatestPerWorkflow ==
    \A k \in 1..Len(repos) :
        LET r    == repos[k]
            runs == r.all_runs
            recs == RecsOf(r.full_name, Output)
        IN  Scanned(r) =>
            /\ \A i \in 1..Len(runs) :
                 Accepted(runs[i].name, workflow_filters) =>
                   /\ Cardinality({j \in 1..Len(recs) :
                          recs[j].workflow_name = runs[i].name}) = 1
                   /\ \A j \in 1..Len(recs) :
                        recs[j].workflow_name = runs[i].name =>
                          /\ recs[j].updated_at = runs[FirstOf(runs, i)].updated_at
                          /\ recs[j].updated_at >= runs[i].updated_at
            /\ \A j \in 1..Len(recs) :
                 \E i \in 1..Len(runs) :
                    /\ runs[i].name = recs[j].workflow_name
                    /\ Accepted(runs[i].name, workflow_filters)

\* Two repositories both have a run of one workflow name, one of them twice,
\* and the page shows that name for both.
C1_Witness ==
    /\ pc = "done"
    /\ \E a, b \in 1..Len(repos) :
         /\ a # b
         /\ Len(repos[a].all_runs) >= 2
         /\ repos[a].all_runs[1].name = repos[a].all_runs[2].name
         /\ \E i \in 1..Len(repos[b].all_runs) :
              repos[b].all_runs[i].name = repos[a].all_runs[1].name
         /\ \E x, y \in 1..Len(Rows) :
              /\ Rows[x].name = repos[a].full_name
              /\ Rows[y].name = repos[b].full_name
              /\ Rows[x].workflow_name = Rows[y].workflow_name
              /\ Rows[x].workflow_name = repos[a].all_runs[1].name

\* the stages in the order of the specification: keep the first run of each
\* name, then filter
RECURSIVE KeepFirstPerName(_, _)
KeepFirstPerName(runs, seen) ==
    IF runs = <<>> THEN <<>>
    ELSE IF Head(runs).name \in seen THEN KeepFirstPerName(Tail(runs), seen)
    ELSE <<Head(runs)>> \o KeepFirstPerName(Tail(runs), seen \cup {Head(runs).name})

SelectThenFilter(runs, T) ==
    SelectSeq(KeepFirstPerName(runs, {}), LAMBDA run : Accepted(run.name, T))

Picks(s) == {<<s[i].name, s[i].updated_at>> : i \in 1..Len(s)}

\* C10: the records of a scanned repository are those that selecting the
\* first run of each name and then filtering would give, although the code
\* filters each run before it looks the name up.
C10_FilterBeforeDedup ==
    \A k \in 1..Len(repos) :
        LET r     == repos[k]
            recs  == RecsOf(r.full_name, Output)
            wants == SelectThenFilter(r.all_runs, workflow_filters)
        IN  Scanned(r) =>
            /\ Len(recs) = Len(wants)
            /\ {<<recs[j].workflow_name, recs[j].updated_at>> : j \in 1..Len(recs)}
                 = Picks(wants)
            /\ pc = "scan" =>
                 \A j \in 1..Len(recs) :
                    /\ recs[j].workflow_name = wants[j].name
                    /\ recs[j].updated_at = wants[j].updated_at

\* A repository whose newest run is rejected by the filter, followed by two
\* accepted runs of one name: the rejected run is the first of the list, the
\* newer accepted run is the one recorded.
C10_Witness ==
    \E k \in 1..Len(repos) :
        LET runs == repos[k].all_runs IN
        /\ Len(runs) >= 3
        /\ ~Accepted(runs[1].name, workflow_filters)
        /\ Accepted(runs[2].name, workflow_filters)
        /\ runs[3].name = runs[2].name
        /\ Len(RecsOf(repos[k].full_name, Output)) = 1

-----------------------------------------------------------------------------
\* C6: when the processing of a repository fails, the output holds no
\* record of that repository.
C6_FailedRepoSkipped ==
    \A k \in 1..Len(repos) :
        Errored(repos[k].full_name) => RecsOf(repos[k].full_name, Output) = <<>>

\* the run at which the loop over the runs raises: reading it fails, or it
\* is the first accepted run of its name and its jobs cannot be read
RaisesAt(runs, i, T) ==
    \/ runs[i].broken = "name"
    \/ /\ runs[i].broken = "jobs"
       /\ Accepted(runs[i].name, T)
       /\ FirstOf(runs, i) = i

FailPoint(runs, T) ==
    IF \E i \in 1..Len(runs) : RaisesAt(runs, i, T)
    THEN CHOOSE i \in 1..Len(runs) :
            RaisesAt(runs, i, T) /\ \A j \in 1..(i - 1) : ~RaisesAt(runs, j, T)
    ELSE Len(runs) + 1

\* what a repository contributes when it is processed alone
Alone(r, T) ==
    IF r.archived \/ r.api_error = "workflows" \/ r.workflows_totalCount = 0
       \/ r.api_error = "runs"
    THEN {}
    ELSE Picks(SelectThenFilter(SubSeq(r.all_runs, 1, FailPoint(r.all_runs, T) - 1), T))

PicksOf(full_name) ==
    LET recs == RecsOf(full_name, Output)
    IN  {<<recs[j].workflow_name, recs[j].updated_at>> : j \in 1..Len(recs)}

\* C7: a failure in one repository leaves the scan running and the other
\* repositories untouched: every repository that did not fail contributes
\* exactly the records it contributes alone, also when it comes after a
\* failing one, and the records accumulated before a failure stay in the
\* output.
C7_FailureIsolated ==
    /\ \A k \in 1..Len(repos) :
         LET r == repos[k] IN
         /\ ~Errored(r.full_name) =>
              /\ PicksOf(r.full_name) = Alone(r, workflow_filters)
              /\ Len(RecsOf(r.full_name, Output)) = Cardinality(Alone(r, workflow_filters))
         /\ Errored(r.full_name) => Alone(r, workflow_filters) \subseteq PicksOf(r.full_name)
    /\ \A x \in 1..Len(Output) :
         \E k \in 1..Len(repos) : repos[k].full_name = Output[x].name

\* A repository fails after it has contributed a record, the repository
\* after it contributes a record, and the page shows both.
C7_Witness ==
    /\ pc = "done"
    /\ \E f, b \in 1..Len(repos) :
         /\ f < b
         /\ Errored(repos[f].full_name)
         /\ ~Errored(repos[b].full_name)
         /\ \A k \in {f, b} : \E x \in 1..Len(Rows) : Rows[x].name = repos[k].full_name

\* C8: an archived repository contributes no record and nothing is
\* retrieved for it, so no retrieval error is reported for it; a repository
\* that is not archived and has no workflows or no runs contributes no
\* record.
C8_ArchivedAndEmptySkipped ==
    \A k \in 1..Len(repos) :
        LET r == repos[k] IN
        /\ r.archived =>
             /\ RecsOf(r.full_name, Output) = <<>>
             /\ ~Errored(r.full_name)
        /\ (~r.archived /\ (r.workflows_totalCount = 0 \/ Len(r.all_runs) = 0)) =>
             RecsOf(r.full_name, Output) = <<>>

\* An archived repository with runs, whose workflow retrieval would fail,
\* then a plain repository with runs: the page shows the second only.
C8_Witness ==
    /\ pc = "done"
    /\ Len(repos) >= 2
    /\ repos[1].archived /\ Len(repos[1].all_runs) > 0
    /\ repos[1].api_error = "workflows"
    /\ ~repos[2].archived /\ Len(repos[2].all_runs) > 0
    /\ Len(Rows) > 0
    /\ \A x \in 1..Len(Rows) : Rows[x].name = repos[2].full_name

-----------------------------------------------------------------------------
\* the categories in display order: A, B, C
Categories == <<TypeOdoo, TypeThird, TypeOther>>

CategoryRank(t) == CHOOSE c \in 1..Len(Categories) : Categories[c] = t

\* (p1, n1) <= (p2, n2): status priority first, repository name second
PairLeq(p1, n1, p2, n2) ==
    p1 < p2 \/ (p1 = p2 /\ ~LexLess(Codes(n2), Codes(n1)))

\* C4: the page shows the categories in the order A, B, C, each at most
\* once; every record is shown exactly once, in the section of its
\* category; inside a section the rows are in non-decreasing order of
\* (status priority, repository name).
C4_GroupedAndSorted ==
    pc = "done" =>
        /\ \A k, l \in 1..Len(html) :
             k < l => CategoryRank(html[k].workflow_type) < CategoryRank(html[l].workflow_type)
        /\ \A k \in 1..Len(html) :
             /\ html[k].rows # <<>>
             /\ \A i \in 1..Len(html[k].rows) :
                  html[k].rows[i].workflow_type = html[k].workflow_type
             /\ \A i, j \in 1..Len(html[k].rows) :
                  i < j =>
                    PairLeq(status_priority(html[k].rows[i].shown), html[k].rows[i].name,
                            status_priority(html[k].rows[j].shown), html[k].rows[j].name)
        /\ Len(Rows) = Len(dashboard_data)
        /\ \A x \in 1..Len(dashboard_data) :
             LET r    == dashboard_data[x]
                 same == {y \in 1..Len(Rows) :
                            /\ Rows[y].name = r.name
                            /\ Rows[y].workflow_name = r.workflow_name
                            /\ Rows[y].updated_at = r.updated_at}
             IN  /\ Cardinality(same) = 1
                 /\ \A y \in same :
                      /\ Rows[y].workflow_type = r.workflow_type
                      /\ Rows[y].status = r.status
                      /\ Rows[y].conclusion = r.conclusion
        /\ \A k \in 1..Len(repos) :
             Len(RecsOf(repos[k].full_name, Rows))
               = Len(SelectThenFilter(repos[k].all_runs, workflow_filters))

\* Repository b delivers (B, success), (A, success), then repository a
\* delivers (A, failure): the page shows A-failure of a, A-success of b,
\* B-success of b.
C4_Witness ==
    /\ pc = "done"
    /\ Len(repos) = 2
    /\ repos[1].full_name = <<"b">> /\ repos[2].full_name = <<"a">>
    /\ [i \in 1..Len(repos[1].all_runs) |->
           <<repos[1].all_runs[i].name, repos[1].all_runs[i].conclusion>>]
         = << <<N_sync_3rd, "success">>, <<N_sync_odoo, "success">> >>
    /\ [i \in 1..Len(repos[2].all_runs) |->
           <<repos[2].all_runs[i].name, repos[2].all_runs[i].conclusion>>]
         = << <<N_sync_odoo, "failure">> >>
    /\ [x \in 1..Len(Rows) |-> <<Rows[x].workflow_type, Rows[x].shown, Rows[x].name>>]
         = << <<TypeOdoo, "failure", <<"a">> >>, <<TypeOdoo, "success", <<"b">> >>,
              <<TypeThird, "success", <<"b">> >> >>

\* the status priority of the specification, section 4.5: the effective
\* status is the conclusion if present, else the status; any other completed
\* run ranks 4, an unknown state 99
ClaimedPriority(r) ==
    LET e == IF r.conclusion # None THEN r.conclusion ELSE r.status IN
    CASE e = "failure"          -> 0
      [] e = "cancelled"        -> 1
      [] e = "in_progress"      -> 2
      [] e = "success"          -> 3
      [] r.status = "completed" /\ e \notin {"failure", "cancelled", "success"} -> 4
      [] OTHER                  -> 99

\* C5: inside a section the rows are ordered by the status priority
\* failure < cancelled < in_progress < success < any other completed run
\* < unknown; a completed run with another conclusion comes after every
\* success and before every run in an unknown state.
C5_StatusPriority ==
    pc = "done" =>
        \A k \in 1..Len(html) :
            \A i, j \in 1..Len(html[k].rows) :
                ClaimedPriority(html[k].rows[i]) < ClaimedPriority(html[k].rows[j]) => i < j

-----------------------------------------------------------------------------
\* the run a row was made from
RunOf(row) ==
    LET k == CHOOSE k \in 1..Len(repos) : repos[k].full_name = row.name
        i == CHOOSE i \in 1..Len(repos[k].all_runs) :
                /\ repos[k].all_runs[i].name = row.workflow_name
                /\ repos[k].all_runs[i].updated_at = row.updated_at
    IN  repos[k].all_runs[i]

InBuckets(job) ==
    {b \in {"success", "failure", "in_progress"} :
        \/ (b = "success" /\ job.conclusion = "success")
        \/ (b = "failure" /\ job.conclusion = "failure")
        \/ (b = "in_progress" /\ job.status = "in_progress")}

\* C9: the summary of a row counts the jobs whose conclusion is success,
\* the jobs whose conclusion is failure and the jobs whose status is
\* in_progress; a job is in at most one bucket, a queued or cancelled job in
\* none, and the job list and the job count of the row hold every job.
C9_JobSummary ==
    \A x \in 1..Len(Rows) :
        LET row  == Rows[x]
            jobs == RunOf(row).jobs
            in(b) == Cardinality({i \in 1..Len(jobs) : b \in InBuckets(jobs[i])})
        IN  /\ row.success_jobs = in("success")
            /\ row.failure_jobs = in("failure")
            /\ row.in_progress_jobs = in("in_progress")
            /\ \A i \in 1..Len(jobs) : Cardinality(InBuckets(jobs[i])) <= 1
            /\ row.success_jobs + row.failure_jobs + row.in_progress_jobs
                 = Len(jobs) - Cardinality({i \in 1..Len(jobs) : InBuckets(jobs[i]) = {}})
            /\ row.job_count = Len(jobs)
            /\ Len(row.jobs) = Len(jobs)
            /\ \A i \in 1..Len(jobs) :
                 /\ row.jobs[i].status = jobs[i].status
                 /\ row.jobs[i].conclusion = jobs[i].conclusion

\* The jobs of the example, [success, success, failure, in_progress], are
\* summarised as (2, 1, 1) with a job count of 4.
C9_Witness ==
    \E x \in 1..Len(Rows) :
        /\ [i \in 1..Len(Rows[x].jobs) |->
               IF Rows[x].jobs[i].conclusion # None THEN Rows[x].jobs[i].conclusion
               ELSE Rows[x].jobs[i].status]
             = <<"success", "success", "failure", "in_progress">>
        /\ Rows[x].success_jobs = 2
        /\ Rows[x].failure_jobs = 1
        /\ Rows[x].in_progress_jobs = 1
        /\ Rows[x].job_count = 4

-----------------------------------------------------------------------------
\* C2: a run is retained iff the list of filter terms is empty or one of
\* the terms, lowercased, is a substring of the lowercased workflow name.
C2_FilterAccepts ==
    \A k \in 1..Len(repos) :
        \A i \in 1..Len(repos[k].all_runs) :
            LET N == repos[k].all_runs[i].name
                retained == \E x \in 1..Len(Output) :
                               /\ Output[x].name = repos[k].full_name
                               /\ Output[x].workflow_name = N
            IN  /\ retained <=> Accepted(N, workflow_filters)
                /\ workflow_filters = <<>> => retained

\* With the terms "odoo" and "lint", read from " Odoo , ,LINT", a run named
\* Sync-Odoo is retained and a run named 3rd is not.
C2_Witness ==
    /\ Len(workflow_filters) = 2
    /\ Len(repos) = 2
    /\ Contains(repos[1].all_runs[1].name, <<"O","d","o","o">>)
    /\ repos[2].all_runs[1].name = <<"3","r","d">>
    /\ RecsOf(repos[1].full_name, Output) # <<>>
    /\ RecsOf(repos[2].full_name, Output) = <<>>
    /\ pc = "done"

\* the classifier, with S the substring that selects category A
CategoryBy(S, n) ==
    IF Contains(Lower(n), S) THEN Categories[1]
    ELSE IF Contains(Lower(n), <<"3","r","d">>) \/ Contains(Lower(n), <<"t","h","i","r","d">>)
         THEN Categories[2]
         ELSE Categories[3]

\* C3 as stated: category A if the name contains "odoo", else B if it
\* contains "3rd" or "third", else C, case-insensitively.
C3_ClassifierOdoo ==
    \A x \in 1..Len(Output) :
        Output[x].workflow_type = CategoryBy(<<"o","d","o","o">>, Output[x].workflow_name)

\* C3, amended: every record has exactly one of the three categories, a
\* function of its workflow name alone, compared case-insensitively:
\* A if the name contains "sync-odoo", else B if it contains "3rd" or
\* "third", else C.
C3_Classifier ==
    /\ \A x \in 1..Len(Output) :
         /\ Output[x].workflow_type
              = CategoryBy(<<"s","y","n","c","-","o","d","o","o">>, Output[x].workflow_name)
         /\ Cardinality({c \in 1..Len(Categories) :
                            Categories[c] = Output[x].workflow_type}) = 1
    /\ \A x, y \in 1..Len(Output) :
         Output[x].workflow_name = Output[y].workflow_name =>
            Output[x].workflow_type = Output[y].workflow_type

\* The page shows a run named Sync-Odoo in category A and a run named Odoo,
\* which contains "odoo" but not "sync-odoo", in category C.
C3_Witness ==
    /\ pc = "done"
    /\ \E x, y \in 1..Len(Rows) :
         /\ Rows[x].workflow_name = N_Sync_Odoo
         /\ Rows[x].workflow_type = TypeOdoo
         /\ Rows[y].workflow_name = <<"O","d","o","o">>
         /\ Rows[y].workflow_type = TypeOther

====
